---- MODULE Spec2Model ----
(***************************************************************************)
(* State-machine model of the two table engines of ayasofyazilim-ui:       *)
(*   TanstackTable  (the declarative-columns table with row actions)       *)
(*   DataTable      (src/molecules/tables/index.tsx)                       *)
(* A React function component is modelled by its useState slots, the props *)
(* its parent passes, the values captured by the last committed render and *)
(* the position in the render / passive-effect cycle.  React runs the      *)
(* render and the effects caused by one event before it dispatches the     *)
(* next discrete event, so event handlers are enabled in the idle phase.   *)
(***************************************************************************)
EXTENDS Integers, Sequences, FiniteSets, TLC

VARIABLES
  \* ---- TanstackTable ----
  rowAction,     \* useState slot: the pending row action, or null
  rendered,      \* rowAction as captured by the last committed render
  ttPhase,       \* "committed" | "idle" | "dirty" | "crashed"
  calls,         \* caller callbacks invoked so far, in order
  nTrig,         \* number of setRowAction calls made by row-action cells
  lastSet,       \* argument of the latest setRowAction call made by a cell
  dialogLog,     \* confirm / cancel firings of the dialogs, in order
  ttColumns,     \* the columns prop: the ids of the caller's columns
  ttData,        \* the data prop: its rows
  excludeColumns,   \* the excludeColumns prop: absent, or a list of ids
  actionsSupplied,  \* whether the actions prop is supplied
  ttColumnVisibility, \* useState slot: column id -> boolean
  ttTable,       \* what the last render built: the column list and the body
  \* ---- DataTable: props ----
  data,            \* the data prop: the array's rows
  isLoading,       \* the isLoading prop
  onDataUpdate,    \* the onDataUpdate prop: 0 when absent, else its identity
  fetchRequest,    \* whether the fetchRequest prop is supplied
  renderSubComponent, \* whether the renderSubComponent prop is supplied
  \* ---- DataTable: useState slots ----
  tableData,       \* [rows, isData]: isData when it is the data prop's array
  isOpen,
  sorting,
  columnVisibility,
  rowSelection,
  filteredColumns, \* the committed filters, in order
  pageIndex,       \* table.getState().pagination.pageIndex
  expanded,        \* table.getState().expanded: indices of the expanded rows
  \* ---- DataTable: render / effect cycle ----
  table,           \* what the last render handed to useReactTable
  prev,            \* the scalar dependency values at the previous commit
  changed,         \* arrays that are not the same object as at that commit
  pending,         \* arrays replaced by a new object since the last render
  mounted,         \* whether the mount effects have run
  dirty,           \* a state slot changed since the last render
  dtPhase,         \* "effect1" | "effect2" | "effect3" | "idle" | "render"
  \* ---- DataTable: observations ----
  lastEvent,       \* the latest event: [kind, arg]
  updCalls,        \* arguments of the onDataUpdate calls since that event
  fetchCalls       \* arguments of the fetchRequest calls since that event

ttProps == <<ttColumns, ttData, excludeColumns, actionsSupplied>>

ttView == <<ttColumnVisibility, ttTable>>

ttVars == <<rowAction, rendered, ttPhase, calls, nTrig, lastSet, dialogLog,
            ttProps, ttView>>

dtProps == <<data, isLoading, onDataUpdate, fetchRequest, renderSubComponent>>

dtState == <<tableData, isOpen, sorting, columnVisibility, rowSelection,
             filteredColumns, pageIndex, expanded>>

dtCycle == <<table, prev, changed, pending, mounted, dirty, dtPhase>>

dtObs == <<lastEvent, updCalls, fetchCalls>>

dtVars == <<dtProps, dtState, dtCycle, dtObs>>

vars == <<ttVars, dtVars>>

-----------------------------------------------------------------------------
(* Bounds *)

MaxTriggers == 3
MaxRowId == 2
MaxRows == 2
MaxPage == 1
MaxLen == 3

-----------------------------------------------------------------------------
(* TanstackTable *)

\* Rows of the data prop, as handed to the row-action cell (row.original).
Rows == 1..MaxRowId

\* The empty pending-action slot.
null == [type |-> "null", hasOnCancel |-> FALSE, row |-> 0, id |-> 0]

\* The row action descriptors of the actions prop, by type; onCancel is
\* optional on the two dialog types.
ActionTypes == {"link", "confirmation-dialog", "custom-dialog"}

actions ==
  {[type |-> "link", hasOnCancel |-> FALSE]}
  \cup {[type |-> t, hasOnCancel |-> c] :
          t \in {"confirmation-dialog", "custom-dialog"}, c \in BOOLEAN}

\* What a caller-supplied callback does when invoked.
Outcomes == {"returns", "throws"}

\* The useState setter of the pending-action slot: the new value replaces
\* the old one whatever it was.
setRowAction_queue(old, new) == IF old = null THEN new ELSE old

setRowAction(old, new) == new

\* A row-action cell calls setRowAction({...action, row}).  id numbers the
\* activation (the object built by the spread is a new object each time).
Trigger(a, r) ==
  /\ ttPhase \in {"idle", "dirty"}
  /\ actionsSupplied
  /\ \E i \in DOMAIN ttData : ttData[i] = r
  /\ nTrig < MaxTriggers
  /\ nTrig' = nTrig + 1
  /\ lastSet' = [type |-> a.type, hasOnCancel |-> a.hasOnCancel,
                 row |-> r, id |-> nTrig + 1]
  /\ rowAction' = setRowAction(rowAction, lastSet')
  /\ ttPhase' = "dirty"
  /\ UNCHANGED <<rendered, calls, dialogLog, ttProps, ttView>>
  /\ UNCHANGED dtVars

\* The optional excludeColumns prop when it is not passed.
undefined == [defined |-> FALSE, value |-> <<>>]

\* useState(excludeColumns ? Object.fromEntries(excludeColumns.map(
\*   (item) => [item, false])) : {})
EmptyVisibility == [id \in {} |-> FALSE]

initialColumnVisibility_none(exclude) == EmptyVisibility

initialColumnVisibility(exclude) ==
  IF exclude.defined
    THEN [id \in {exclude.value[i] : i \in DOMAIN exclude.value} |-> FALSE]
    ELSE EmptyVisibility

\* column.getIsVisible(): columnVisibility[id] ?? true
getIsVisible(id) ==
  IF id \in DOMAIN ttColumnVisibility THEN ttColumnVisibility[id] ELSE TRUE

\* useMemo(() => { const _columns = [...columns]; if (actions)
\*   _columns.push({id: 'actions', ...}); return _columns; })
tableColumns ==
  ttColumns \o (IF actionsSupplied THEN <<"actions">> ELSE <<>>)

\* <TableBody>: a row of visible cells for each row of the row model, or
\* the single placeholder row when it has none.
TanstackTableBody ==
  IF Len(ttData) # 0
    THEN [i \in DOMAIN ttData |->
            [kind |-> "row", index |-> i - 1,
             cells |-> Cardinality({c \in DOMAIN tableColumns :
                                      getIsVisible(tableColumns[c])})]]
    ELSE <<[kind |-> "no-results", colSpan |-> Len(ttColumns),
            text |-> "No data results"]>>

\* React re-renders with the latest props and state; the effect keyed on
\* rowAction is scheduled when the rendered value differs from the previous
\* render's.
TTRender ==
  /\ ttPhase = "dirty"
  /\ rendered' = rowAction
  /\ ttTable' = [columns |-> tableColumns, body |-> TanstackTableBody]
  /\ ttPhase' = IF rowAction # rendered THEN "committed" ELSE "idle"
  /\ UNCHANGED <<rowAction, calls, nTrig, lastSet, dialogLog, ttProps,
                 ttColumnVisibility>>
  /\ UNCHANGED dtVars

\* The parent renders TanstackTable again with any props: the component
\* runs with them, the useState initialisers do not run again, and no
\* dependency of the effect has changed.
TTParentRender(cols, d, exclude, act) ==
  /\ ttPhase = "idle"
  /\ ttColumns' = cols
  /\ ttData' = d
  /\ excludeColumns' = exclude
  /\ actionsSupplied' = act
  /\ UNCHANGED ttColumnVisibility
  /\ ttTable' = [columns |-> tableColumns', body |-> TanstackTableBody']
  /\ UNCHANGED <<rowAction, rendered, ttPhase, calls, nTrig, lastSet,
                 dialogLog>>
  /\ UNCHANGED dtVars

\* onColumnVisibilityChange: setColumnVisibility, called by the toolbar's
\* column toggle with the column's new visibility.
setTTColumnVisibility(id, value) ==
  /\ ttPhase = "idle"
  /\ getIsVisible(id) # value
  /\ ttColumnVisibility' =
       [k \in DOMAIN ttColumnVisibility \cup {id} |->
          IF k = id THEN value ELSE ttColumnVisibility[k]]
  /\ ttPhase' = "dirty"
  /\ UNCHANGED <<rowAction, rendered, calls, nTrig, lastSet, dialogLog,
                 ttProps, ttTable>>
  /\ UNCHANGED dtVars

\* Dialog rendering conditions of the returned JSX.
customDialogRendered_both ==
  rendered.type \in {"confirmation-dialog", "custom-dialog"}

confirmationDialogRendered == rendered.type = "confirmation-dialog"

customDialogRendered == rendered.type = "custom-dialog"

\* The record of one invocation of a callback of the rendered action: it
\* is handed the rendered action's row.
Called(cb, outcome) ==
  [cb |-> cb, id |-> rendered.id, row |-> rendered.row, outcome |-> outcome]

\* useEffect(() => { if (rowAction?.type === 'link') { rowAction.onClick(
\* rowAction.row); setRowAction(null); } }, [rowAction]).  A throwing
\* onClick leaves the effect before setRowAction(null); the uncaught error
\* makes React tear the component down.
LinkEffect_anyType(outcome) ==
  /\ ttPhase = "committed"
  /\ outcome = "returns"
  /\ IF rendered # null
       THEN /\ calls' = Append(calls, Called("onClick", outcome))
            /\ rowAction' = setRowAction(rowAction, null)
            /\ ttPhase' = "dirty"
       ELSE /\ ttPhase' = "idle"
            /\ UNCHANGED <<rowAction, calls>>
  /\ UNCHANGED <<rendered, nTrig, lastSet, dialogLog, ttProps, ttView>>
  /\ UNCHANGED dtVars

LinkEffect(outcome) ==
  /\ ttPhase = "committed"
  /\ IF rendered.type = "link"
       THEN /\ calls' = Append(calls, Called("onClick", outcome))
            /\ IF outcome = "returns"
                 THEN /\ rowAction' = setRowAction(rowAction, null)
                      /\ ttPhase' = "dirty"
                 ELSE /\ rowAction' = rowAction
                      /\ ttPhase' = "crashed"
       ELSE /\ outcome = "returns"
            /\ ttPhase' = "idle"
            /\ UNCHANGED <<rowAction, calls>>
  /\ UNCHANGED <<rendered, nTrig, lastSet, dialogLog, ttProps, ttView>>
  /\ UNCHANGED dtVars

\* The open dialog's confirm button: onConfirm(row), then setDialogOpen,
\* which is () => setRowAction(null).  The dialog clears the slot whether
\* or not the callback fails.
Confirm(outcome) ==
  /\ ttPhase = "idle"
  /\ confirmationDialogRendered \/ customDialogRendered
  /\ calls' = Append(calls, Called("onConfirm", outcome))
  /\ dialogLog' = Append(dialogLog, [id |-> rendered.id, via |-> "confirm"])
  /\ rowAction' = setRowAction(rowAction, null)
  /\ ttPhase' = "dirty"
  /\ UNCHANGED <<rendered, nTrig, lastSet, ttProps, ttView>>
  /\ UNCHANGED dtVars

\* The open dialog's cancel button or dismissal: onCancel?.(row), then
\* setDialogOpen.  Without an onCancel there is nothing that could fail.
Cancel(outcome) ==
  /\ ttPhase = "idle"
  /\ confirmationDialogRendered \/ customDialogRendered
  /\ rendered.hasOnCancel \/ outcome = "returns"
  /\ calls' = IF rendered.hasOnCancel
                THEN Append(calls, Called("onCancel", outcome))
                ELSE calls
  /\ dialogLog' = Append(dialogLog, [id |-> rendered.id, via |-> "cancel"])
  /\ rowAction' = setRowAction(rowAction, null)
  /\ ttPhase' = "dirty"
  /\ UNCHANGED <<rendered, nTrig, lastSet, ttProps, ttView>>
  /\ UNCHANGED dtVars

\* The caller's column lists: pairwise distinct ids, at most three.
TTColumnIds == {"id", "name", "status", "actions"}

ColumnLists ==
  {list \in UNION {[1..n -> TTColumnIds] : n \in 0..3} :
     \A i, j \in DOMAIN list : list[i] = list[j] => i = j}

\* The column lists the parent passes in the runs of the whole table.
ColumnChoices ==
  {<<>>, <<"id", "name", "status">>, <<"id", "actions">>, <<"name">>}

ExcludeChoices ==
  {undefined}
  \cup {[defined |-> TRUE, value |-> list] :
          list \in {<<>>, <<"id">>, <<"id", "status">>}}

AllRows == [i \in 1..MaxRowId |-> i]

\* The first render with props out of the given sets.
InitTanstackTable(C, D, E, A) ==
  /\ ttColumns \in C
  /\ ttData \in D
  /\ excludeColumns \in E
  /\ actionsSupplied \in A
  /\ ttColumnVisibility = initialColumnVisibility(excludeColumns)
  /\ ttTable = [columns |-> tableColumns, body |-> TanstackTableBody]

\* After the first render: the slot is empty and the mount effects are due.
\* Unless said otherwise the table has three columns, actions and rows.
InitRowAction ==
  /\ rowAction = null
  /\ rendered = null
  /\ ttPhase = "committed"
  /\ calls = <<>>
  /\ nTrig = 0
  /\ lastSet = null
  /\ dialogLog = <<>>

InitTT ==
  /\ InitRowAction
  /\ InitTanstackTable({<<"id", "name", "status">>}, {AllRows}, {undefined},
                       {TRUE})

-----------------------------------------------------------------------------
(* DataTable: values *)

\* A row object is the set of its <<field, value>> pairs; {} is the object
\* with no fields.
Fields == {"name"}

FieldValues == {"A", "B"}

EmptyRow == {}

RealRows == {{<<f, v>>} : f \in Fields, v \in FieldValues}

\* The arrays a caller passes as the data prop.
DataChoices == UNION {[1..n -> RealRows] : n \in 0..MaxRows}

\* Array(6).fill({})
PlaceholderCount == 6

Array6Fill == [i \in 1..PlaceholderCount |-> EmptyRow]

\* columnsData.data.columns of a caller-authored column list.
columnsData ==
  <<[id |-> "id", cell |-> "own"], [id |-> "name", cell |-> "own"],
    [id |-> "status", cell |-> "own"]>>

\* Object identity.  React compares dependencies and state with Object.is;
\* for an array that is decided by whether the slot was given a new object
\* since the previous commit.  pending collects the slots given a new object
\* since the last render, and the render hands them to its effects as
\* changed.  tableData.isData tells whether the slot holds the very array
\* of the data prop.

\* The useState setter of tableData: the slot takes the value, and React
\* schedules a render unless it is the object already held.
setTableData(new) ==
  /\ tableData' = new
  /\ IF new.isData /\ tableData.isData
       THEN UNCHANGED <<pending, dirty>>
       ELSE /\ pending' = pending \cup {"tableData"}
            /\ dirty' = TRUE

-----------------------------------------------------------------------------
(* DataTable: the Filter Payload *)

Chars == {"a", "b", ","}

\* String.prototype.split(','): the segments between the commas, the empty
\* ones included ("" splits into one empty segment).
RECURSIVE split(_)
split(str) ==
  IF str = <<>>
    THEN << <<>> >>
    ELSE LET rest == split(Tail(str)) IN
         IF Head(str) = ","
           THEN << <<>> >> \o rest
           ELSE << <<Head(str)>> \o Head(rest) >> \o Tail(rest)

\* .filter((i) => i): the truthy (non-empty) strings, in order.
filterTruthy_keep(segs) == segs

filterTruthy(segs) == SelectSeq(segs, LAMBDA seg : seg # <<>>)

\* filter[key] = value on a JS object: the key is added or overwritten.
assign(obj, key, value) ==
  [k \in DOMAIN obj \cup {key} |-> IF k = key THEN value ELSE obj[k]]

\* The value stored for one committed filter.
payloadValue(column) ==
  IF column.type = "select-multiple" \/ column.type = "select-async"
    THEN filterTruthy(split(column.value))
    ELSE column.value

\* filteredColumns.forEach(...) over an initially empty object.
RECURSIVE buildFilter(_, _)
buildFilter(obj, columns) ==
  IF columns = <<>>
    THEN obj
    ELSE buildFilter(assign(obj, Head(columns).name,
                            payloadValue(Head(columns))),
                     Tail(columns))

EmptyObject == [k \in {} |-> <<>>]

-----------------------------------------------------------------------------
(* DataTable: render and effects *)

\* if (isLoading) columns = columns.map(c => ({...c, cell: SkeletonCell}))
columns(loading) ==
  IF loading
    THEN [i \in DOMAIN columnsData |->
            [columnsData[i] EXCEPT !.cell = "SkeletonCell"]]
    ELSE columnsData

\* row.getVisibleCells().length: one cell per column that is not hidden.
visibleCells(cols) ==
  Cardinality({i \in DOMAIN cols : cols[i].id \notin columnVisibility})

\* {row.getIsExpanded() && renderSubComponent && (<TableRow> ...
\*    {renderSubComponent({ row })} ...)}: calling an absent
\* renderSubComponent would be a TypeError.
subComponentRow_unguarded(index, cols) ==
  IF index \in expanded
    THEN <<[kind |-> IF renderSubComponent THEN "sub" ELSE "TypeError",
            index |-> index, colSpan |-> visibleCells(cols)]>>
    ELSE <<>>

subComponentRow(index, cols) ==
  IF index \in expanded /\ renderSubComponent
    THEN <<[kind |-> "sub", index |-> index, colSpan |-> visibleCells(cols)]>>
    ELSE <<>>

\* table.getRowModel().rows.map(...): a row of cells for each row of the
\* row model, followed by its sub-component row.
RECURSIVE rowsMap(_, _, _)
rowsMap(length, index, cols) ==
  IF index >= length
    THEN <<>>
    ELSE <<[kind |-> "row", index |-> index, cells |-> visibleCells(cols)]>>
         \o subComponentRow(index, cols)
         \o rowsMap(length, index + 1, cols)

\* <TableBody>: the rows when the row model has any, else the single
\* placeholder row.  The row model has one row per element of its data.
colSpan(cols) == Len(cols) + 1

TableBody(rows, cols) ==
  IF Len(rows) # 0
    THEN rowsMap(Len(rows), 0, cols)
    ELSE <<[kind |-> "no-results", colSpan |-> colSpan(cols),
            text |-> "No results."]>>

\* One render: useReactTable receives data: tableData and the columns.
\* Props change only with a render, so the closures made here hold the
\* current props.
Render ==
  /\ dtPhase = "render"
  /\ table' = [data |-> tableData.rows, columns |-> columns(isLoading),
                body |-> TableBody(tableData.rows, columns(isLoading))]
  /\ changed' = pending
  /\ pending' = {}
  /\ dirty' = FALSE
  /\ dtPhase' = "effect1"
  /\ UNCHANGED <<dtProps, dtState, prev, mounted, dtObs>>
  /\ UNCHANGED ttVars

\* Dependency arrays, compared with Object.is against the previous commit.
deps1Changed_onlyLoading ==
  ~mounted \/ prev.isLoading # isLoading

deps1Changed ==
  ~mounted \/ prev.isLoading # isLoading \/ "data" \in changed

deps2Changed_onlyCallback ==
  ~mounted \/ prev.onDataUpdate # onDataUpdate

deps2Changed ==
  ~mounted \/ "tableData" \in changed \/ prev.onDataUpdate # onDataUpdate

deps3Changed_noPage ==
  ~mounted \/ "filteredColumns" \in changed

deps3Changed ==
  ~mounted \/ prev.pageIndex # pageIndex \/ "filteredColumns" \in changed

\* useEffect(() => { if (isLoading) setTableData(Array(6).fill({}));
\*                   else setTableData(data); }, [isLoading, data])
Effect1 ==
  /\ dtPhase = "effect1"
  /\ IF deps1Changed
       THEN IF isLoading
              THEN setTableData([rows |-> Array6Fill, isData |-> FALSE])
              ELSE setTableData([rows |-> data, isData |-> TRUE])
       ELSE UNCHANGED <<tableData, pending, dirty>>
  /\ dtPhase' = "effect2"
  /\ UNCHANGED <<dtProps, isOpen, sorting, columnVisibility, rowSelection,
                 filteredColumns, pageIndex, expanded, table, prev, changed,
                 mounted, dtObs>>
  /\ UNCHANGED ttVars

\* useEffect(() => { onDataUpdate?.(tableData); setIsOpen(false); },
\*           [tableData, onDataUpdate]); tableData is the rendered value.
Effect2_noClose ==
  /\ dtPhase = "effect2"
  /\ updCalls' = IF deps2Changed /\ onDataUpdate # 0
                    THEN Append(updCalls, table.data)
                    ELSE updCalls
  /\ dtPhase' = "effect3"
  /\ UNCHANGED <<dtProps, dtState, table, prev, changed, pending, mounted,
                 dirty, lastEvent, fetchCalls>>
  /\ UNCHANGED ttVars

Effect2 ==
  /\ dtPhase = "effect2"
  /\ IF deps2Changed
       THEN /\ updCalls' = IF onDataUpdate # 0
                             THEN Append(updCalls, table.data)
                             ELSE updCalls
            /\ isOpen' = FALSE
            /\ dirty' = (dirty \/ isOpen)
       ELSE UNCHANGED <<updCalls, isOpen, dirty>>
  /\ dtPhase' = "effect3"
  /\ UNCHANGED <<dtProps, tableData, sorting, columnVisibility, rowSelection,
                 filteredColumns, pageIndex, expanded, table, prev, changed,
                 pending, mounted, lastEvent, fetchCalls>>
  /\ UNCHANGED ttVars

\* useEffect(() => { ...build filter...; fetchRequest?.(pageIndex, filter) },
\*           [pageIndex, filteredColumns]).  It is the last effect of the
\* commit: the dependencies of this commit become the previous ones.
Effect3 ==
  /\ dtPhase = "effect3"
  /\ fetchCalls' =
       IF deps3Changed /\ fetchRequest
         THEN Append(fetchCalls,
                     [pageIndex |-> pageIndex,
                      filter |-> buildFilter(EmptyObject, filteredColumns)])
         ELSE fetchCalls
  /\ prev' = [isLoading |-> isLoading, onDataUpdate |-> onDataUpdate,
              pageIndex |-> pageIndex]
  /\ changed' = {}
  /\ mounted' = TRUE
  /\ dtPhase' = IF dirty THEN "render" ELSE "idle"
  /\ UNCHANGED <<dtProps, dtState, table, pending, dirty, lastEvent,
                 updCalls>>
  /\ UNCHANGED ttVars

-----------------------------------------------------------------------------
(* DataTable: events *)

\* Every event starts a new observation window.
Event(kind, arg) ==
  /\ dtPhase = "idle"
  /\ lastEvent' = [kind |-> kind, arg |-> arg]
  /\ updCalls' = <<>>
  /\ fetchCalls' = <<>>
  /\ UNCHANGED ttVars

\* The parent renders DataTable again with a new data array (newData) or
\* the array it passed before, any loading flag and any onDataUpdate.
ParentRender(newData, d, l, f) ==
  /\ Event("props", 0)
  /\ data' = d
  /\ isLoading' = l
  /\ onDataUpdate' = f
  /\ IF newData
       THEN /\ pending' = {"data"}
            /\ tableData' = [tableData EXCEPT !.isData = FALSE]
       ELSE /\ d = data
            /\ UNCHANGED <<pending, tableData>>
  /\ dtPhase' = "render"
  /\ UNCHANGED <<fetchRequest, renderSubComponent, isOpen, sorting,
                 columnVisibility, rowSelection, filteredColumns, pageIndex,
                 expanded, table, prev, changed, mounted, dirty>>

\* onRowSelectionChange: (row) => { if (isLoading) return;
\*                                  setRowSelection(row); }
onRowSelectionChange_unguarded(selection, row) == row

onRowSelectionChange(selection, row) ==
  IF isLoading THEN selection ELSE row

\* A selection request of the row model (a checkbox, select-all, ...).
SelectRows(row) ==
  /\ Event("select", row)
  /\ rowSelection' = onRowSelectionChange(rowSelection, row)
  /\ dirty' = (rowSelection' # rowSelection)
  /\ dtPhase' = IF dirty' THEN "render" ELSE "idle"
  /\ UNCHANGED <<dtProps, tableData, isOpen, sorting, columnVisibility,
                 filteredColumns, pageIndex, expanded, table, prev, changed,
                 pending, mounted>>

\* old.filter((_row, index) => index !== rowIndex), indices from 0.
RECURSIVE filterIndex(_, _, _)
filterIndex(old, index, rowIndex) ==
  IF old = <<>>
    THEN <<>>
    ELSE (IF index # rowIndex THEN <<Head(old)>> ELSE <<>>)
         \o filterIndex(Tail(old), index + 1, rowIndex)

\* meta.removeRow: setTableData(old => old.filter(...));
\* table.resetRowSelection(), which requests the empty selection through
\* onRowSelectionChange.  filter builds a new array; removing the element
\* from old itself would remove it from the caller's array whenever the
\* snapshot is that array.
removeRow_splice(rowIndex) ==
  /\ Event("removeRow", rowIndex)
  /\ tableData' = [tableData EXCEPT
                     !.rows = filterIndex(tableData.rows, 0, rowIndex)]
  /\ data' = IF tableData.isData THEN tableData'.rows ELSE data
  /\ rowSelection' = onRowSelectionChange(rowSelection, {})
  /\ dirty' = TRUE
  /\ dtPhase' = "render"
  /\ UNCHANGED <<isLoading, onDataUpdate, fetchRequest, renderSubComponent,
                 isOpen, sorting, columnVisibility, filteredColumns,
                 pageIndex, expanded, table, prev, changed, pending, mounted>>

removeRow(rowIndex) ==
  /\ Event("removeRow", rowIndex)
  /\ setTableData([rows |-> filterIndex(tableData.rows, 0, rowIndex),
                   isData |-> FALSE])
  /\ rowSelection' = onRowSelectionChange(rowSelection, {})
  /\ dtPhase' = "render"
  /\ UNCHANGED <<dtProps, isOpen, sorting, columnVisibility,
                 filteredColumns, pageIndex, expanded, table, prev, changed,
                 mounted>>

\* {...row, [columnId]: value}
spread(row, columnId, value) ==
  {p \in row : p[1] # columnId} \cup {<<columnId, value>>}

\* meta.updateData: setTableData(old => old.map(...)).
UpdateValues == {"B"}

updateData(rowIndex, columnId, value) ==
  /\ Event("updateData", 0)
  /\ setTableData(
       [rows |-> [i \in DOMAIN tableData.rows |->
                    IF i - 1 = rowIndex
                      THEN spread(tableData.rows[i], columnId, value)
                      ELSE tableData.rows[i]],
        isData |-> FALSE])
  /\ dtPhase' = "render"
  /\ UNCHANGED <<dtProps, isOpen, sorting, columnVisibility, rowSelection,
                 filteredColumns, pageIndex, expanded, table, prev, changed,
                 mounted>>

\* onSortingChange: setSorting
SortingChoices == {<<>>, <<[id |-> "name", desc |-> TRUE]>>}

setSorting(s) ==
  /\ Event("sorting", 0)
  /\ s # sorting
  /\ sorting' = s
  /\ dirty' = TRUE
  /\ dtPhase' = "render"
  /\ UNCHANGED <<dtProps, tableData, isOpen, columnVisibility, rowSelection,
                 filteredColumns, pageIndex, expanded, table, prev, changed,
                 pending, mounted>>

\* onColumnVisibilityChange: setColumnVisibility; the state is the set of
\* column ids mapped to false.
VisibilityChoices == {{}, {"status"}}

setColumnVisibility(v) ==
  /\ Event("visibility", 0)
  /\ v # columnVisibility
  /\ columnVisibility' = v
  /\ dirty' = TRUE
  /\ dtPhase' = "render"
  /\ UNCHANGED <<dtProps, tableData, isOpen, sorting, rowSelection,
                 filteredColumns, pageIndex, expanded, table, prev, changed,
                 pending, mounted>>

\* The footer pages through the table: table.setPageIndex(p).
setPageIndex(p) ==
  /\ Event("page", p)
  /\ p # pageIndex
  /\ pageIndex' = p
  /\ dirty' = TRUE
  /\ dtPhase' = "render"
  /\ UNCHANGED <<dtProps, tableData, isOpen, sorting, columnVisibility,
                 rowSelection, filteredColumns, expanded, table, prev,
                 changed, pending, mounted>>

\* The toolbar commits a filter set: setFilteredColumns(list), a new array.
setFilteredColumns(list) ==
  /\ Event("filters", 0)
  /\ filteredColumns' = list
  /\ pending' = pending \cup {"filteredColumns"}
  /\ dirty' = TRUE
  /\ dtPhase' = "render"
  /\ UNCHANGED <<dtProps, tableData, isOpen, sorting, columnVisibility,
                 rowSelection, pageIndex, expanded, table, prev, changed,
                 mounted>>

\* A cell toggles the expansion of its row: row.toggleExpanded().
ToggleExpanded(index) ==
  /\ Event("expand", index)
  /\ expanded' = IF index \in expanded THEN expanded \ {index}
                                        ELSE expanded \cup {index}
  /\ dirty' = TRUE
  /\ dtPhase' = "render"
  /\ UNCHANGED <<dtProps, tableData, isOpen, sorting, columnVisibility,
                 rowSelection, filteredColumns, pageIndex, table, prev,
                 changed, pending, mounted>>

\* The toolbar opens its action dialog: setIsOpen(true).
OpenAction ==
  /\ Event("open", 0)
  /\ ~isOpen
  /\ isOpen' = TRUE
  /\ dirty' = TRUE
  /\ dtPhase' = "render"
  /\ UNCHANGED <<dtProps, tableData, sorting, columnVisibility, rowSelection,
                 filteredColumns, pageIndex, expanded, table, prev, changed,
                 pending, mounted>>

-----------------------------------------------------------------------------
(* DataTable: filter sets *)

Str(n) == UNION {[1..k -> Chars] : k \in 0..n}

FilterTypes == {"select-multiple", "select-async", "text"}

FilterNames == {"status", "q"}

Filter(name, type, value) == [name |-> name, value |-> value, type |-> type]

\* Filter descriptor lists with pairwise distinct names and values of at
\* most n characters.
FilterLists(n) ==
  {<<>>}
  \cup {<<Filter(nm, t, v)>> : nm \in FilterNames, t \in FilterTypes,
                               v \in Str(n)}
  \cup {<<Filter("status", t1, v1), Filter("q", t2, v2)>> :
          t1 \in FilterTypes, t2 \in FilterTypes,
          v1 \in Str(n), v2 \in Str(n)}

\* The filter sets the toolbar commits in the runs of the whole table.
ToolbarLists ==
  { <<>>,
    <<Filter("status", "select-multiple", <<"a", ",", "b", ",", ",", "c">>)>>,
    <<Filter("status", "select-async", <<>>),
      Filter("q", "text", <<"a", ",", "b">>)>> }

-----
(* Initial states and specifications *)

\* The detailedFilter prop: absent, or a list of filter descriptors out of
\* DF.
DetailedFilterProps(DF) ==
  {undefined} \cup {[defined |-> TRUE, value |-> list] : list \in DF}

\* useState(() => { if (detailedFilter) return detailedFilter.filter(
\*                   (i) => i.value); return []; }): a string is truthy
\* when it is not empty.
initialFilteredColumns_all(detailedFilter) ==
  IF detailedFilter.defined THEN detailedFilter.value ELSE <<>>

initialFilteredColumns(detailedFilter) ==
  IF detailedFilter.defined
    THEN SelectSeq(detailedFilter.value, LAMBDA i : i.value # <<>>)
    ELSE <<>>

\* useState initialisers and the first render, with data out of D and
\* detailedFilter out of DF.  The mount is the first event, observed with
\* the detailedFilter prop it was given.
InitDT(D, DF) ==
  /\ data \in D
  /\ isLoading \in BOOLEAN
  /\ onDataUpdate \in {0, 1}
  /\ fetchRequest \in BOOLEAN
  /\ renderSubComponent \in BOOLEAN
  /\ tableData = [rows |-> data, isData |-> TRUE]
  /\ isOpen = FALSE
  /\ sorting = <<>>
  /\ columnVisibility = {}
  /\ rowSelection = {}
  /\ \E detailedFilter \in DF :
       /\ filteredColumns = initialFilteredColumns(detailedFilter)
       /\ lastEvent = [kind |-> "mount", arg |-> detailedFilter]
  /\ pageIndex = 0
  /\ expanded = {}
  /\ table = [data |-> tableData.rows, columns |-> columns(isLoading),
               body |-> TableBody(tableData.rows, columns(isLoading))]
  /\ prev = [isLoading |-> FALSE, onDataUpdate |-> 0, pageIndex |-> 0]
  /\ changed = {}
  /\ pending = {}
  /\ mounted = FALSE
  /\ dirty = FALSE
  /\ dtPhase = "effect1"
  /\ updCalls = <<>>
  /\ fetchCalls = <<>>

SelectionChoices == SUBSET (0..(MaxRows - 1))

\* The parent passes a new data array out of D, or the same one, with any
\* loading flag and any onDataUpdate out of F.
ParentRenders(D, F) ==
  \/ \E d \in D, l \in BOOLEAN, f \in F : ParentRender(TRUE, d, l, f)
  \/ \E l \in BOOLEAN, f \in F : ParentRender(FALSE, data, l, f)

Cycle == Render \/ Effect1 \/ Effect2 \/ Effect3

\* The data path: loads, new data, local edits and the toolbar's dialog.
NextData ==
  \/ Cycle
  \/ OpenAction
  \/ ParentRenders(DataChoices, {0, 1})
  \/ \E i \in 0..(Len(tableData.rows) - 1) : removeRow(i)
  \/ \E i \in 0..(Len(tableData.rows) - 1), c \in Fields, v \in UpdateValues :
       updateData(i, c, v)

\* Row selection against loads and row removal.
NextSelect ==
  \/ Cycle
  \/ ParentRenders(DataChoices, {0})
  \/ \E row \in SelectionChoices : SelectRows(row)
  \/ \E i \in 0..(Len(tableData.rows) - 1) : removeRow(i)

\* The filter synchronisation loop against every other state change.
SyncData == {d \in DataChoices : Len(d) < MaxRows}

NextSync ==
  \/ Cycle
  \/ ParentRenders(SyncData, {0})
  \/ \E row \in {{}, {0}} : SelectRows(row)
  \/ \E s \in SortingChoices : setSorting(s)
  \/ \E v \in VisibilityChoices : setColumnVisibility(v)
  \/ \E p \in 0..MaxPage : setPageIndex(p)
  \/ \E list \in ToolbarLists : setFilteredColumns(list)

\* The Filter Payload of every filter set, built at mount.
NextPayload ==
  \/ Cycle
  \/ \E list \in ToolbarLists : setFilteredColumns(list)

NextTT ==
  \/ \E a \in actions, r \in Rows : Trigger(a, r)
  \/ TTRender
  \/ \E o \in Outcomes : LinkEffect(o)
  \/ \E o \in Outcomes : Confirm(o)
  \/ \E o \in Outcomes : Cancel(o)

\* TanstackTable alone; no DataTable is mounted beside it.
InitTable ==
  /\ InitTT
  /\ InitDT({<<>>}, {undefined})
  /\ isLoading = FALSE /\ onDataUpdate = 0 /\ fetchRequest = FALSE
  /\ renderSubComponent = FALSE

SpecTT == InitTable /\ [][NextTT]_vars

\* Link actions only: every trigger is a trigger of a link action.
NextLinks ==
  \/ \E a \in {x \in actions : x.type = "link"}, r \in Rows : Trigger(a, r)
  \/ TTRender
  \/ \E o \in Outcomes : LinkEffect(o)

SpecLinks == InitTable /\ [][NextLinks]_vars

\* TanstackTable's columns, visibility and body under every change of its
\* props and the user's column toggles.
NextColumns ==
  \/ \E cols \in ColumnChoices, d \in {<<>>, AllRows}, e \in ExcludeChoices,
        act \in BOOLEAN : TTParentRender(cols, d, e, act)
  \/ \E id \in {"id", "name"}, value \in BOOLEAN :
       setTTColumnVisibility(id, value)
  \/ TTRender
  \/ \E o \in Outcomes : LinkEffect(o)

InitColumns ==
  /\ InitRowAction
  /\ InitTanstackTable(ColumnLists, {<<>>, AllRows}, ExcludeChoices, BOOLEAN)
  /\ InitDT({<<>>}, {undefined})
  /\ isLoading = FALSE /\ onDataUpdate = 0 /\ fetchRequest = FALSE
  /\ renderSubComponent = FALSE

SpecColumns == InitColumns /\ [][NextColumns]_vars

InitData ==
  /\ InitTT
  /\ InitDT(DataChoices, {undefined})
  /\ fetchRequest = FALSE /\ renderSubComponent = FALSE

SpecData == InitData /\ [][NextData]_vars

InitSelect ==
  /\ InitTT
  /\ InitDT(DataChoices, {undefined})
  /\ onDataUpdate = 0 /\ fetchRequest = FALSE
  /\ renderSubComponent = FALSE

SpecSelect == InitSelect /\ [][NextSelect]_vars

InitSync ==
  /\ InitTT
  /\ InitDT(SyncData, DetailedFilterProps(ToolbarLists))
  /\ onDataUpdate = 0 /\ fetchRequest = TRUE
  /\ renderSubComponent = FALSE

SpecSync == InitSync /\ [][NextSync]_vars

InitPayload ==
  /\ InitTT
  /\ InitDT({<<>>}, DetailedFilterProps(FilterLists(MaxLen)))
  /\ isLoading = FALSE /\ onDataUpdate = 0 /\ fetchRequest = TRUE
  /\ renderSubComponent = FALSE

SpecPayload == InitPayload /\ [][NextPayload]_vars

\* Notification of the optional collaborators, each supplied or not for the
\* life of the table: loads, new data, edits and row expansion.
NextNotify ==
  \/ Cycle
  \/ ParentRenders(SyncData, {onDataUpdate})
  \/ \E i \in 0..(Len(tableData.rows) - 1) : removeRow(i)
  \/ \E i \in 0..(Len(tableData.rows) - 1), c \in Fields, v \in UpdateValues :
       updateData(i, c, v)
  \/ \E i \in 0..(Len(data) - 1) : ToggleExpanded(i)

InitNotify ==
  /\ InitTT
  /\ InitDT(SyncData, {undefined})

SpecNotify == InitNotify /\ [][NextNotify]_vars

-----------------------------------------------------------------------------
(* Properties of TanstackTable, checked under SpecTT *)

DialogTypes == {"confirmation-dialog", "custom-dialog"}

\* C1: after every setRowAction call made by a row-action cell the slot
\* holds exactly the action of that call with its row, also when a dialog
\* was open; the slot never holds anything but nothing or the most recently
\* set action, so an action that was replaced never comes back.
P3_MostRecentlySet ==
  [][ /\ rowAction' \in {null, lastSet'}
      /\ nTrig' # nTrig =>
           /\ rowAction' = lastSet'
           /\ rowAction'.id = nTrig'
           /\ rowAction'.type \in ActionTypes
           /\ rowAction'.row \in Rows ]_vars

\* A trigger arrived while a dialog was open and replaced its action.
C1_ReplacedOpenDialog ==
  /\ ttPhase = "dirty"
  /\ confirmationDialogRendered \/ customDialogRendered
  /\ rowAction = lastSet
  /\ rowAction.id > rendered.id
  /\ rowAction.type \in ActionTypes

\* C2: the reaction to a rendered link action invokes its onClick exactly
\* once, with the action's row, and returns the slot to empty.
P4_LinkAutoClear ==
  [][ (ttPhase = "committed" /\ rendered.type = "link"
       /\ ttPhase' # "committed") =>
        /\ Len(calls') = Len(calls) + 1
        /\ calls'[Len(calls')].cb = "onClick"
        /\ calls'[Len(calls')].id = rendered.id
        /\ calls'[Len(calls')].row = rendered.row
        /\ Cardinality({i \in DOMAIN calls' : calls'[i].id = rendered.id}) = 1
        /\ rowAction' = null ]_vars

\* C3: whenever a caller-supplied callback has been invoked the slot is
\* cleared, whether the callback returned or threw.
SlotClearedAfterCallback ==
  [][ Len(calls') > Len(calls) => rowAction' = null ]_vars

-----------------------------------------------------------------------------
(* Properties of DataTable *)

\* C5: in every render the row model is fed the 6 placeholder rows and
\* skeleton cells when isLoading is true, and the caller's data and columns
\* when it is false.
P5_LoadingProjection ==
  dtPhase # "render" =>
    IF isLoading
      THEN /\ table.data = Array6Fill
           /\ \A i \in DOMAIN table.columns :
                table.columns[i].cell = "SkeletonCell"
      ELSE /\ table.data = data
           /\ table.columns = columnsData

\* C6: onDataUpdate is never handed the 6-row placeholder array.
PlaceholderNeverExposed ==
  \A i \in DOMAIN updCalls : updCalls[i] # Array6Fill

\* C7: a selection request leaves the row selection unchanged while
\* isLoading is true and is applied while it is false.
SelectionSuppressedWhileLoading ==
  [][ (dtPhase = "idle" /\ lastEvent'.kind = "select") =>
        rowSelection' = IF isLoading THEN rowSelection
                                     ELSE lastEvent'.arg ]_vars

\* A request for another selection was made while loading and dropped.
C7_RequestDropped ==
  /\ dtPhase = "idle"
  /\ isLoading
  /\ lastEvent.kind = "select"
  /\ lastEvent.arg # rowSelection

\* C8: removeRow(i) on an n-row snapshot leaves the n - 1 other rows in
\* their order and an empty row selection, whatever the selection and the
\* loading flag were.
P7_RemoveRowResetsSelection ==
  [][ (dtPhase = "idle" /\ lastEvent'.kind = "removeRow") =>
        LET i == lastEvent'.arg
            old == tableData.rows
        IN /\ tableData'.rows =
                [k \in 1..(Len(old) - 1) |->
                   IF k <= i THEN old[k] ELSE old[k + 1]]
           /\ rowSelection' = {} ]_vars

\* C9: with fetchRequest supplied it is invoked exactly once for the mount
\* and exactly once for each change of the page index or of the committed
\* filters, with the current page index and the payload of the current
\* filters, and not at all for any other event.
FetchOncePerChange ==
  /\ Len(fetchCalls) <= 1
  /\ dtPhase = "idle" =>
       /\ Len(fetchCalls) =
            (IF lastEvent.kind \in {"mount", "page", "filters"} THEN 1 ELSE 0)
       /\ Len(fetchCalls) = 1 =>
            fetchCalls[1] =
              [pageIndex |-> pageIndex,
               filter |-> buildFilter(EmptyObject, filteredColumns)]

\* The page was changed under a committed filter and fetched once.
C9_FetchedAfterPageChange ==
  /\ dtPhase = "idle"
  /\ lastEvent.kind = "page"
  /\ filteredColumns # <<>>
  /\ Len(fetchCalls) = 1
  /\ fetchCalls[1].pageIndex = MaxPage

\* The maximal comma-free non-empty runs of a string, from left to right.
RunStarts(str) ==
  {i \in 1..Len(str) : str[i] # "," /\ (i = 1 \/ str[i - 1] = ",")}

RunEnd(str, i) ==
  CHOOSE j \in i..Len(str) :
    /\ \A k \in i..j : str[k] # ","
    /\ j = Len(str) \/ str[j + 1] = ","

Runs(str) ==
  [n \in 1..Cardinality(RunStarts(str)) |->
     LET i == CHOOSE c \in RunStarts(str) :
                Cardinality({b \in RunStarts(str) : b < c}) = n - 1
     IN SubSeq(str, i, RunEnd(str, i))]

\* C10: the payload handed to fetchRequest has exactly the committed
\* filters' names as keys; a select-multiple or select-async filter maps to
\* the non-empty segments of its value between the commas, in order, every
\* other filter to its value.
P6_PayloadDecomposition ==
  \A c \in DOMAIN fetchCalls :
    LET filter == fetchCalls[c].filter IN
    /\ DOMAIN filter = {filteredColumns[i].name : i \in DOMAIN filteredColumns}
    /\ \A i \in DOMAIN filteredColumns :
         LET column == filteredColumns[i] IN
         filter[column.name] =
           IF column.type \in {"select-multiple", "select-async"}
             THEN Runs(column.value)
             ELSE column.value

\* "a,b,,c" of a select-multiple filter was sent as ["a", "b", "c"].
C10_EmptySegmentDropped ==
  /\ Len(fetchCalls) = 1
  /\ Len(filteredColumns) = 1
  /\ filteredColumns[1].value = <<"a", ",", "b", ",", ",", "c">>
  /\ fetchCalls[1].filter["status"] = << <<"a">>, <<"b">>, <<"c">> >>

\* The entries of a descriptor list that have a non-empty value, by
\* position: the n-th of them.
KeptIndices(list) == {i \in DOMAIN list : Len(list[i].value) > 0}

NthKept(list, n) ==
  CHOOSE i \in KeptIndices(list) :
    Cardinality({j \in KeptIndices(list) : j < i}) = n - 1

\* C11: at mount the committed filters are exactly the entries of
\* detailedFilter with a non-empty value, in their order, and none when
\* detailedFilter is absent; the payload of the fetchRequest call made on
\* mount has exactly their names as keys, so none of an entry left out.
SeedFromDetailedFilter ==
  lastEvent.kind = "mount" =>
    LET list == lastEvent.arg.value
        kept == KeptIndices(list)
    IN /\ ~lastEvent.arg.defined => filteredColumns = <<>>
       /\ Len(filteredColumns) = Cardinality(kept)
       /\ \A n \in DOMAIN filteredColumns :
            filteredColumns[n] = list[NthKept(list, n)]
       /\ \A c \in DOMAIN fetchCalls :
            DOMAIN fetchCalls[c].filter = {list[i].name : i \in kept}

\* The table was mounted with an entry without a value before one with a
\* value; only the second was committed and sent.
C11_EmptyEntryLeftOut ==
  /\ lastEvent.kind = "mount"
  /\ Len(fetchCalls) = 1
  /\ Len(lastEvent.arg.value) = 2
  /\ lastEvent.arg.value[1].value = <<>>
  /\ Len(filteredColumns) = 1
  /\ filteredColumns[1] = lastEvent.arg.value[2]
  /\ DOMAIN fetchCalls[1].filter = {"q"}

\* C12: every new snapshot is rendered before the table is idle again, the
\* rendered snapshot is the current one unless a newer one awaits its
\* render, and once the reaction to a render with a new snapshot has run a
\* supplied onDataUpdate has been called last with that snapshot, also
\* after removeRow and updateData; an absent onDataUpdate, fetchRequest or
\* renderSubComponent is never invoked and nothing fails.
NotifiedOfEveryChange ==
  /\ "tableData" \in pending => dirty \/ dtPhase = "render"
  /\ "tableData" \notin pending => table.data = tableData.rows
  /\ (dtPhase = "effect3" /\ "tableData" \in changed /\ onDataUpdate # 0) =>
       /\ updCalls # <<>>
       /\ updCalls[Len(updCalls)] = table.data
  /\ (dtPhase = "idle" /\ onDataUpdate # 0
      /\ lastEvent.kind \in {"mount", "removeRow", "updateData"}) =>
       /\ updCalls # <<>>
       /\ updCalls[Len(updCalls)] = tableData.rows
  /\ onDataUpdate = 0 => updCalls = <<>>
  /\ ~fetchRequest => fetchCalls = <<>>
  /\ \A i \in DOMAIN table.body :
       /\ table.body[i].kind # "TypeError"
       /\ ~renderSubComponent => table.body[i].kind # "sub"

\* A row was removed from real data and onDataUpdate received the rows
\* left, while fetchRequest and renderSubComponent are absent and a row is
\* expanded.
C12_NotifiedAfterRemoveRow ==
  /\ dtPhase = "idle"
  /\ lastEvent.kind = "removeRow"
  /\ onDataUpdate # 0
  /\ ~isLoading
  /\ ~fetchRequest
  /\ ~renderSubComponent
  /\ expanded # {}
  /\ updCalls = <<tableData.rows>>
  /\ Len(tableData.rows) < Len(data)

-----------------------------------------------------------------------------
(* Properties of the rendered table *)

\* C13: when the row model has no rows the body is exactly one placeholder
\* row spanning the declared columns, and one more only when rows can be
\* expanded, with the text "No results." in DataTable and "No data
\* results" in TanstackTable.
P8_NoResultsRendering ==
  /\ (dtPhase # "render" /\ table.data = <<>>) =>
       table.body =
         <<[kind |-> "no-results",
            colSpan |-> Len(table.columns)
                          + (IF renderSubComponent THEN 1 ELSE 0),
            text |-> "No results."]>>
  /\ ttData = <<>> =>
       ttTable.body =
         <<[kind |-> "no-results", colSpan |-> Len(ttColumns),
            text |-> "No data results"]>>

\* C14: at mount the visibility state maps exactly the ids of
\* excludeColumns to false, and nothing when the prop is absent, so every
\* other column is visible; a later change of the excludeColumns prop
\* leaves the state as it is, and the state changes only in a call of the
\* visibility setter.
P2_VisibilityDefault ==
  /\ DOMAIN ttColumnVisibility =
       (IF excludeColumns.defined
          THEN {excludeColumns.value[i] : i \in DOMAIN excludeColumns.value}
          ELSE {})
  /\ \A id \in DOMAIN ttColumnVisibility : ttColumnVisibility[id] = FALSE
  /\ \A c \in DOMAIN ttTable.columns :
       getIsVisible(ttTable.columns[c]) <=>
         ~(excludeColumns.defined
           /\ \E i \in DOMAIN excludeColumns.value :
                excludeColumns.value[i] = ttTable.columns[c])
  /\ [][ /\ excludeColumns' # excludeColumns =>
             ttColumnVisibility' = ttColumnVisibility
         /\ ttColumnVisibility' # ttColumnVisibility =>
             \E id \in TTColumnIds, value \in BOOLEAN :
               setTTColumnVisibility(id, value) ]_vars

\* The table was mounted excluding id and status, the user hid name, and
\* the parent then dropped excludeColumns: all three stay hidden.
C14_ExcludeDroppedLater ==
  /\ ttPhase = "idle"
  /\ excludeColumns = undefined
  /\ DOMAIN ttColumnVisibility = {"id", "status", "name"}
  /\ \A id \in DOMAIN ttColumnVisibility : ~getIsVisible(id)

\* C16: the column ids handed to the row model are pairwise distinct: in
\* DataTable the caller's columns, in TanstackTable the caller's columns,
\* themselves pairwise distinct, followed by the column 'actions' when
\* actions are supplied.
P1_ColumnIdsDistinct ==
  /\ \A i, j \in DOMAIN table.columns :
       table.columns[i].id = table.columns[j].id => i = j
  /\ (\A i, j \in DOMAIN ttColumns : ttColumns[i] = ttColumns[j] => i = j) =>
       /\ Len(ttTable.columns) = Len(ttColumns) + (IF actionsSupplied THEN 1
                                                                      ELSE 0)
       /\ \A i, j \in DOMAIN ttTable.columns :
            ttTable.columns[i] = ttTable.columns[j] => i = j

\* C15: only the parent changes the data prop: no render, effect or edit
\* changes the caller's array or its rows; removeRow and updateData leave a
\* snapshot that is a new array, and the loading projection one of 6 rows
\* without any field, whatever the data was.
DataNeverMutated ==
  [][ /\ ~(dtPhase = "idle" /\ lastEvent'.kind = "props") => data' = data
      /\ (dtPhase = "idle" /\ lastEvent'.kind \in {"removeRow", "updateData"})
           => /\ ~tableData'.isData
              /\ data' = data
      /\ (dtPhase = "effect1" /\ dtPhase' = "effect2" /\ deps1Changed
          /\ isLoading)
           => /\ ~tableData'.isData
              /\ Len(tableData'.rows) = PlaceholderCount
              /\ \A i \in DOMAIN tableData'.rows : tableData'.rows[i] = {}
    ]_vars

\* A row was removed from the snapshot; the caller's array has all its rows.
C15_RemovedFromCopy ==
  /\ dtPhase = "idle"
  /\ lastEvent.kind = "removeRow"
  /\ ~isLoading
  /\ Len(data) = MaxRows
  /\ Len(tableData.rows) = MaxRows - 1

-----------------------------------------------------------------------------
(* Properties of the link reaction *)

\* The onClick invocations made for the k-th trigger.
ClicksOf(k) ==
  {i \in DOMAIN calls : calls[i].id = k /\ calls[i].cb = "onClick"}

\* C17: no trigger of a link action yields more than one onClick, and
\* once the reactions have run every trigger has yielded exactly one,
\* also triggers that came before the reaction to an earlier one.
OneClickPerTrigger ==
  /\ \A k \in 1..nTrig : Cardinality(ClicksOf(k)) <= 1
  /\ ttPhase \in {"idle", "crashed"} =>
       \A k \in 1..nTrig : Cardinality(ClicksOf(k)) = 1

\* C18: the reaction to a rendered dialog action invokes no callback and
\* leaves the slot as it is; a slot holding a dialog action changes only
\* when the dialog is resolved, which empties it, or when a new trigger
\* replaces the action.
DialogUntouchedByReaction ==
  [][ /\ (ttPhase = "committed" /\ rendered.type \in DialogTypes
          /\ ttPhase' # "committed")
           => /\ calls' = calls
              /\ rowAction' = rowAction
              /\ rowAction' = rendered
      /\ (rowAction.type \in DialogTypes /\ rowAction' # rowAction)
           => \/ /\ Len(dialogLog') = Len(dialogLog) + 1
                 /\ rowAction' = null
              \/ /\ nTrig' = nTrig + 1
                 /\ rowAction' = lastSet' ]_vars

\* The reaction to an opened dialog has run: the dialog is still open and
\* no callback has been invoked.
C18_DialogOpenAfterReaction ==
  /\ ttPhase = "idle"
  /\ rowAction.type \in DialogTypes
  /\ rendered = rowAction
  /\ calls = <<>>
  /\ dialogLog = <<>>

-----------------------------------------------------------------------------
(* Properties of DataTable's resynchronisation *)

ResyncDiscardsEdits ==
  /\ []("data" \in pending => dtPhase = "render")
  /\ [][ /\ (dtPhase = "effect1" /\ dtPhase' = "effect2"
             /\ (prev.isLoading # isLoading \/ "data" \in changed))
              => tableData'.rows =
                   (IF isLoading THEN [i \in 1..PlaceholderCount |-> {}]
                                 ELSE data)
         /\ tableData'.rows # tableData.rows
              => \/ /\ dtPhase = "effect1"
                    /\ \/ ~mounted
                       \/ prev.isLoading # isLoading
                       \/ "data" \in changed
                 \/ /\ dtPhase = "idle"
                    /\ lastEvent'.kind \in {"removeRow", "updateData"}
     ]_vars

\* A placeholder row was removed during a load; at the end of the load
\* the reaction has set the snapshot to the caller's data, which was the
\* same array all along.
C20_EditDiscardedAtLoadEnd ==
  /\ dtPhase = "effect2"
  /\ lastEvent.kind = "props"
  /\ ~isLoading
  /\ prev.isLoading
  /\ "data" \notin changed
  /\ Len(table.data) = PlaceholderCount - 1
  /\ tableData.isData
  /\ tableData.rows = data
  /\ Len(data) = MaxRows

====
